---- MODULE Spec2Model ----
(***************************************************************************)
(* A model of the DRE Insights Dashboard (vsevolodbreus/dre-dashboard):    *)
(* the transaction data frame, the derived-field augmenter, the range      *)
(* filter, the aggregation library, the comparison helper and the map      *)
(* normalisation, as the Python code computes them with pandas.            *)
(*                                                                         *)
(* Data representation                                                     *)
(*   - a float64 is a record [k, n, d]: k = "num" is the rational n/d in   *)
(*     lowest terms (d > 0), k = "nan" is NaN (pandas' null of a float     *)
(*     column), k = "inf" is +inf (n = 1) or -inf (n = -1).  Arithmetic    *)
(*     follows IEEE-754 as numpy applies it to a Series (x/0 is inf or     *)
(*     NaN, never an exception); rounding error is not modelled.           *)
(*   - a date is a day number, day 0 being 2023-01-01; a timestamp is a    *)
(*     tick number, TicksPerDay ticks to the day.                          *)
(*   - a DataFrame is a sequence of rows, a row a record that carries its  *)
(*     index label in the field "index".                                   *)
(*   - the outcome of a call is [tag |-> "ok", val |-> v] or               *)
(*     [tag |-> "raise", val |-> <exception name>].                        *)
(***************************************************************************)
EXTENDS Integers, Sequences, FiniteSets, TLC

VARIABLES
    tx_data,            \* the augmented transaction frame (DRE_Dashboard.py:204)
    search_date_from,   \* st.session_state.search_date_from
    search_date_to,     \* st.session_state.search_date_to
    quick_select_timedelta, \* st.session_state.quick_select_timedelta
    call,               \* the last call made: [fn |-> name, ...arguments]
    ret,                \* what that call produced
    dubailand_tx,       \* the rows of the table dubailand_tx of data/dre.db
    dubai_areas,        \* the table dubai_areas of data/dre.db
    persist             \* the position of a running persist_changes_dubai_areas

vars ==
    <<tx_data, search_date_from, search_date_to, quick_select_timedelta, call, ret,
      dubailand_tx, dubai_areas, persist>>

\* the session state of the sidebar
session == <<search_date_from, search_date_to, quick_select_timedelta>>

\* the database file and the writer at work on it
db == <<dubailand_tx, dubai_areas, persist>>

(***************************************************************************)
(* Bounds of the model.                                                    *)
(***************************************************************************)
MaxRows == 3        \* rows of the transaction frame
MaxDay == 2         \* transactions are dated on days 0..MaxDay
TicksPerDay == 2    \* times of day distinguished within one date
MaxTop == 2         \* the top-N functions are called with N in 1..MaxTop
MaxAbs == 4         \* percent_change is applied to integers -MaxAbs..MaxAbs
MaxAreas == 2       \* rows of an edited areas frame

(***************************************************************************)
(* float64 values.                                                         *)
(***************************************************************************)
Abs(x) == IF x < 0 THEN -x ELSE x

Sign(x) == IF x < 0 THEN -1 ELSE IF x > 0 THEN 1 ELSE 0

RECURSIVE GCD(_, _)
GCD(a, b) == IF b = 0 THEN a ELSE GCD(b, a % b)

Num(n, d) ==
    LET g == GCD(Abs(n), Abs(d))
        s == Sign(d)
    IN  [k |-> "num", n |-> (s * n) \div g, d |-> (s * d) \div g]

FInt(n) == [k |-> "num", n |-> n, d |-> 1]

NaN == [k |-> "nan", n |-> 0, d |-> 1]

Inf(s) == [k |-> "inf", n |-> s, d |-> 1]

IsNum(x) == x.k = "num"

IsNaN(x) == x.k = "nan"

IsInf(x) == x.k = "inf"

\* the sign of a non-NaN float
FSign(x) == Sign(x.n)

FNeg(x) == [x EXCEPT !.n = -x.n]

FAdd(a, b) ==
    CASE IsNaN(a) \/ IsNaN(b) -> NaN
      [] IsInf(a) /\ IsInf(b) -> IF a.n = b.n THEN a ELSE NaN
      [] IsInf(a) -> a
      [] IsInf(b) -> b
      [] OTHER -> Num(a.n * b.d + b.n * a.d, a.d * b.d)

FSub(a, b) == FAdd(a, FNeg(b))

FMul(a, b) ==
    CASE IsNaN(a) \/ IsNaN(b) -> NaN
      [] IsInf(a) \/ IsInf(b) ->
            IF FSign(a) * FSign(b) = 0 THEN NaN ELSE Inf(FSign(a) * FSign(b))
      [] OTHER -> Num(a.n * b.n, a.d * b.d)

\* IEEE division: x/0 is +-inf, 0/0 and inf/inf are NaN; no exception
FDiv(a, b) ==
    CASE IsNaN(a) \/ IsNaN(b) -> NaN
      [] IsInf(a) /\ IsInf(b) -> NaN
      [] IsInf(a) -> Inf(a.n * (IF FSign(b) < 0 THEN -1 ELSE 1))
      [] IsInf(b) -> FInt(0)
      [] b.n = 0 -> IF a.n = 0 THEN NaN ELSE Inf(FSign(a))
      [] OTHER -> Num(a.n * b.d, a.d * b.n)

\* a < b on floats; every comparison with NaN is false
FLess(a, b) ==
    CASE IsNaN(a) \/ IsNaN(b) -> FALSE
      [] IsInf(a) /\ IsInf(b) -> a.n < b.n
      [] IsInf(a) -> a.n < 0
      [] IsInf(b) -> b.n > 0
      [] OTHER -> a.n * b.d < b.n * a.d

FLeq(a, b) == ~IsNaN(a) /\ ~IsNaN(b) /\ ~FLess(b, a)

\* x == 0 in Python
FIsZero(x) == IsNum(x) /\ x.n = 0

(***************************************************************************)
(* utils/formulas.py                                                       *)
(***************************************************************************)
\* a plausible slip: the zero guard left out
percent_change_unguarded(x1, x2) ==
    FMul(FDiv(FSub(x2, x1), x1), FInt(100))

percent_change(x1, x2) ==
    IF FIsZero(x1)
    THEN FInt(0)
    ELSE FMul(FDiv(FSub(x2, x1), x1), FInt(100))

(***************************************************************************)
(* Call outcomes.                                                          *)
(***************************************************************************)
Ok(v) == [tag |-> "ok", val |-> v]

Raise(e) == [tag |-> "raise", val |-> e]

NoCall == [fn |-> "none"]

(***************************************************************************)
(* The transaction frame: utils/db.py get_tx_data and                      *)
(* utils/transformations.py augment_tx_data.                               *)
(***************************************************************************)
\* the calendar date of a timestamp: Series.dt.date
DtDate(ts) == ts \div TicksPerDay

\* the time of day of a timestamp
DtTime(ts) == ts % TicksPerDay

\* Series.dt.isocalendar().week for the dates of 2023: day 0, 2023-01-01, is
\* a Sunday and closes ISO week 52 of 2022; week 1 starts on day 1
IsoWeek(date) == IF date = 0 THEN 52 ELSE ((date - 1) \div 7) + 1

\* Series.dt.strftime("%Y-%m-%d"): the text of the date, the time dropped
StrftimeYmd(ts) == [k |-> "text", date |-> DtDate(ts)]

\* the hardcoded conversion rate, 3.6725 dirham to the dollar
AED_PER_USD == Num(36725, 10000)

\* one row of dubailand_tx joined with dubai_areas, as SELECT ... JOIN gives it
BaseRow ==
    [ tx_number     |-> "tx",
      tx_ts         |-> 0,
      tx_type       |-> "Sales",
      reg_type      |-> "Ready",
      prop_type     |-> "Unit",
      rooms         |-> "1 B/R",
      project       |-> "Alpha",
      area          |-> "marina",
      area_norm     |-> "marina",
      prop_subtype  |-> "Flat",
      tx_size_sqm   |-> FInt(1),
      tx_value      |-> Num(36725, 100),
      prop_size_sqm |-> FInt(1),
      latitude      |-> FInt(25),
      longitude     |-> FInt(55) ]

\* ORDER BY dt.tx_ts ASC: the query returns its rows in timestamp order
\* (rows of equal timestamp in either order)
OrderedByTs(s) == \A i \in 1..(Len(s) - 1) : s[i].tx_ts <= s[i + 1].tx_ts

\* con.sql(query).df(): the rows under a RangeIndex 0..n-1
QueryDf(s) == [i \in 1..Len(s) |-> [index |-> i - 1] @@ s[i]]

\* every result the query can give over rows drawn from `rows`
QueryResults(rows) ==
    { QueryDf(s) : s \in { q \in UNION { [1..n -> rows] : n \in 0..MaxRows } :
                             OrderedByTs(q) } }

\* NaT, the null of the timestamp column: a value no timestamp takes
NaT == 0 - 1

\* <NA>, what dt.isocalendar().week gives for NaT (no week has this number)
NAWeek == 0

\* NaN, what dt.strftime gives for NaT
NullText == [k |-> "null", date |-> 0]

\* a plausible slip: the converted value written back to tx_value as well
augment_tx_data_in_place(df) ==
    [i \in 1..Len(df) |->
        LET usd == FDiv(df[i].tx_value, AED_PER_USD)
        IN  [ week_number  |-> IF df[i].tx_ts = NaT
                               THEN NAWeek ELSE IsoWeek(DtDate(df[i].tx_ts)),
              tx_date      |-> IF df[i].tx_ts = NaT
                               THEN NullText ELSE StrftimeYmd(df[i].tx_ts),
              tx_value     |-> usd,
              tx_value_usd |-> usd,
              price_sqm    |-> FDiv(usd, df[i].prop_size_sqm) ] @@ df[i]]

\* the four columns are assigned from tx_ts, tx_value and prop_size_sqm,
\* replacing the column where the frame already has it; no row is dropped
\* and nothing is raised for a null in any of the three
augment_tx_data(df) ==
    [i \in 1..Len(df) |->
        LET usd == FDiv(df[i].tx_value, AED_PER_USD)
        IN  [ week_number  |-> IF df[i].tx_ts = NaT
                               THEN NAWeek ELSE IsoWeek(DtDate(df[i].tx_ts)),
              tx_date      |-> IF df[i].tx_ts = NaT
                               THEN NullText ELSE StrftimeYmd(df[i].tx_ts),
              tx_value_usd |-> usd,
              price_sqm    |-> FDiv(usd, df[i].prop_size_sqm) ] @@ df[i]]

(***************************************************************************)
(* utils/transformations.py: the range filter and the count.               *)
(***************************************************************************)
\* a plausible slip: the upper bound of the range left out
DateMaskHalfOpen(df, from_date, to_date) ==
    [lbl \in { df[i].index : i \in 1..Len(df) } |->
        LET r == CHOOSE x \in { df[i] : i \in 1..Len(df) } : x.index = lbl
        IN  DtDate(r.tx_ts) >= from_date /\ DtDate(r.tx_ts) < to_date]

\* (df.tx_ts.dt.date >= from_date) & (df.tx_ts.dt.date <= to_date): the
\* boolean Series, keyed by index label
DateMask(df, from_date, to_date) ==
    [lbl \in { df[i].index : i \in 1..Len(df) } |->
        LET r == CHOOSE x \in { df[i] : i \in 1..Len(df) } : x.index = lbl
        IN  DtDate(r.tx_ts) >= from_date /\ DtDate(r.tx_ts) <= to_date]

\* df.loc[mask]: the rows whose label the mask marks, in the frame's order
Loc(df, mask) == SelectSeq(df, LAMBDA r : mask[r.index])

\* a plausible slip: the bounds compared with the timestamp, not its date
get_slice_of_data_ts(df, from_date, to_date) ==
    SelectSeq(df, LAMBDA r : r.tx_ts >= from_date * TicksPerDay
                             /\ r.tx_ts <= to_date * TicksPerDay)

get_slice_of_data(df, from_date, to_date) ==
    Loc(df, DateMask(df, from_date, to_date))

\* a plausible slip: the upper bound exclusive
get_number_of_tx_exclusive(df, from_date, to_date) ==
    Cardinality({ i \in 1..Len(df) : DtDate(df[i].tx_ts) >= from_date
                                     /\ DtDate(df[i].tx_ts) < to_date })

\* .shape[0] of the masked frame
get_number_of_tx(df, from_date, to_date) ==
    LET mask == DateMask(df, from_date, to_date)
    IN  Cardinality({ i \in 1..Len(df) : mask[df[i].index] })

(***************************************************************************)
(* pandas helpers the aggregations are built from.                         *)
(***************************************************************************)
\* the strings of the model's columns in Python's string order
StrOrder ==
    << "1 B/R", "2 B/R", "Alpha", "Beta", "Gamma", "Land", "Mortgage",
       "Off-Plan", "Ready", "Sales", "Studio", "Unit" >>

StrRank(str) == CHOOSE i \in 1..Len(StrOrder) : StrOrder[i] = str

StrLess(a, b) == StrRank(a) < StrRank(b)

\* None in an object column
NullStr == "<null>"

Range(seq) == { seq[i] : i \in 1..Len(seq) }

\* the columns that hold strings, and those that hold floats
StrColumns ==
    { "tx_number", "tx_type", "reg_type", "prop_type", "rooms", "project", "area",
      "prop_subtype" }

FloatColumns ==
    { "tx_value", "tx_size_sqm", "prop_size_sqm", "latitude", "longitude",
      "tx_value_usd", "price_sqm" }

\* a < b for two values of the column col (tx_date holds date texts, which
\* sort as their dates do)
ColLess(col, a, b) ==
    CASE col \in StrColumns -> StrLess(a, b)
      [] col \in FloatColumns -> FLess(a, b)
      [] col = "tx_date" -> a.date < b.date

\* whether a value of the column col is null
ColIsNull(col, a) ==
    CASE col \in StrColumns -> a = NullStr
      [] col \in FloatColumns -> IsNaN(a)
      [] col = "tx_date" -> FALSE

\* the key of a row for the columns cols
RowKey(r, cols) == [c \in 1..Len(cols) |-> r[cols[c]]]

\* the order of two keys: by the first column that tells them apart
KeyLess(cols, a, b) ==
    \E c \in 1..Len(cols) :
        /\ \A e \in 1..(c - 1) : a[e] = b[e]
        /\ ColLess(cols[c], a[c], b[c])

\* the keys of a finite set in ascending order
SortKeys(S, cols) ==
    CHOOSE s \in [1..Cardinality(S) -> S] :
        \A i, j \in 1..Cardinality(S) : i < j => KeyLess(cols, s[i], s[j])

\* Series.sum(): NaN skipped, 0.0 for no value
RECURSIVE FSum(_)
FSum(seq) ==
    IF seq = <<>>
    THEN FInt(0)
    ELSE IF IsNaN(Head(seq))
         THEN FSum(Tail(seq))
         ELSE FAdd(Head(seq), FSum(Tail(seq)))

\* the values that are not NaN
DropNaN(seq) == SelectSeq(seq, LAMBDA x : ~IsNaN(x))

\* Series.max(): NaN skipped, NaN for no value
FMax(seq) ==
    LET v == DropNaN(seq)
    IN  IF v = <<>>
        THEN NaN
        ELSE LET i == CHOOSE i \in 1..Len(v) : \A j \in 1..Len(v) : FLeq(v[j], v[i])
             IN  v[i]

\* Series.min(): NaN skipped, NaN for no value
FMin(seq) ==
    LET v == DropNaN(seq)
    IN  IF v = <<>>
        THEN NaN
        ELSE LET i == CHOOSE i \in 1..Len(v) : \A j \in 1..Len(v) : FLeq(v[i], v[j])
             IN  v[i]

\* Series.median(): NaN skipped, NaN for no value, the mean of the two
\* middle values for an even number of them
FMedian(seq) ==
    LET v == DropNaN(seq)
        n == Len(v)
        ord == CHOOSE p \in [1..n -> 1..n] :
                   \A i, j \in 1..n : i < j => /\ p[i] # p[j]
                                               /\ FLeq(v[p[i]], v[p[j]])
    IN  IF n = 0
        THEN NaN
        ELSE IF n % 2 = 1
             THEN v[ord[(n + 1) \div 2]]
             ELSE FDiv(FAdd(v[ord[n \div 2]], v[ord[(n \div 2) + 1]]), FInt(2))

\* the column `col` of a frame, as a sequence of values
Column(df, col) == [i \in 1..Len(df) |-> df[i][col]]

\* DataFrame.groupby(keys): the groups in ascending key order, each with its
\* rows in the frame's order; rows with a null key are dropped
GroupBy(df, cols) ==
    LET kept == SelectSeq(df, LAMBDA r :
                    \A c \in 1..Len(cols) : ~ColIsNull(cols[c], r[cols[c]]))
        keys == SortKeys({ RowKey(kept[i], cols) : i \in 1..Len(kept) }, cols)
    IN  [g \in 1..Len(keys) |->
            [key |-> keys[g],
             rows |-> SelectSeq(kept, LAMBDA r : RowKey(r, cols) = keys[g])]]

\* .count() of one column of a group: its non-null values
CountNonNull(rows, col) == Len(SelectSeq(rows, LAMBDA r : r[col] # NullStr))

\* the permutations of 1..n
Perms(n) == { p \in [1..n -> 1..n] : \A i, j \in 1..n : i # j => p[i] # p[j] }

\* whether the value a of the column col sorts strictly before b in
\* descending order: floats with NaN last (na_position="last"), the counts
\* of units_sold as integers
DescBefore(col, a, b) ==
    IF col = "units_sold"
    THEN a > b
    ELSE IF IsNaN(a) THEN FALSE ELSE IsNaN(b) \/ FLess(b, a)

\* DataFrame.sort_values(by, ascending=False) with the default
\* kind="quicksort", which is not a stable sort: every arrangement of the
\* rows in which no row comes after a row it sorts strictly before
SortValuesDescending(df, by) ==
    { [i \in 1..Len(df) |-> df[p[i]]] :
        p \in { q \in Perms(Len(df)) :
                  \A i, j \in 1..Len(df) :
                      i < j => ~DescBefore(by, df[q[j]][by], df[q[i]][by]) } }

\* df[:top]
HeadRows(df, top) == SubSeq(df, 1, IF top < Len(df) THEN top ELSE Len(df))

\* "{:,.0f}".format(x): the text of x rounded to an integer, ties to even
Format0f(x) ==
    IF ~IsNum(x)
    THEN [k |-> "text", s |-> x.k, n |-> x.n]
    ELSE LET q == x.n \div x.d
             r == x.n - q * x.d
         IN  [k |-> "text", s |-> "num",
              n |-> IF 2 * r < x.d THEN q
                    ELSE IF 2 * r > x.d THEN q + 1
                    ELSE IF q % 2 = 0 THEN q ELSE q + 1]

\* df.set_index(pd.Index(list(range(1, top + 1)))): a ValueError (length
\* mismatch) unless the frame has exactly `top` rows
SetIndexOneToTop(df, top) ==
    IF Len(df) # top
    THEN Raise("ValueError")
    ELSE Ok([i \in 1..Len(df) |-> [df[i] EXCEPT !.index = i]])

(***************************************************************************)
(* utils/transformations.py: the aggregation library.                      *)
(***************************************************************************)
\* a plausible slip: the value summed in dirham, not in dollars
get_total_tx_value_aed(df, from_date, to_date) ==
    FSum(Column(Loc(df, DateMask(df, from_date, to_date)), "tx_value"))

get_total_tx_value(df, from_date, to_date) ==
    FSum(Column(Loc(df, DateMask(df, from_date, to_date)), "tx_value_usd"))

get_median_tx_value_per_sqm(df, from_date, to_date) ==
    FMedian(Column(Loc(df, DateMask(df, from_date, to_date)), "price_sqm"))

\* the rental data set is not wired in: a constant
get_median_rental_value(df, from_date, to_date) == FInt(0)

get_largest_tx(df, from_date, to_date) ==
    FMax(Column(Loc(df, DateMask(df, from_date, to_date)), "tx_value_usd"))

\* groupby(["prop_type", "tx_date"], as_index=False).count(); of the counted
\* columns the model keeps tx_number, the one the chart plots
get_tx_by_type(df, from_date, to_date) ==
    LET groups == GroupBy(Loc(df, DateMask(df, from_date, to_date)),
                          <<"prop_type", "tx_date">>)
    IN  [g \in 1..Len(groups) |->
            [index     |-> g - 1,
             prop_type |-> groups[g].key[1],
             tx_date   |-> groups[g].key[2],
             tx_number |-> CountNonNull(groups[g].rows, "tx_number")]]

get_reg_type(df, from_date, to_date) ==
    LET groups == GroupBy(Loc(df, DateMask(df, from_date, to_date)), <<"reg_type">>)
    IN  [g \in 1..Len(groups) |->
            [index         |-> g - 1,
             reg_type      |-> groups[g].key[1],
             tx_number     |-> CountNonNull(groups[g].rows, "tx_number"),
             reg_type_temp |-> ""]]

get_payment_type(df, from_date, to_date) ==
    LET groups == GroupBy(Loc(df, DateMask(df, from_date, to_date)), <<"tx_type">>)
    IN  [g \in 1..Len(groups) |->
            [index               |-> g - 1,
             tx_type             |-> groups[g].key[1],
             tx_number           |-> CountNonNull(groups[g].rows, "tx_number"),
             payment_method_temp |-> ""]]

get_median_price_sqm(df, from_date, to_date) ==
    LET groups == GroupBy(Loc(df, DateMask(df, from_date, to_date)), <<"tx_date">>)
    IN  [g \in 1..Len(groups) |->
            [index     |-> g - 1,
             tx_date   |-> groups[g].key[1],
             price_sqm |-> FMedian(Column(groups[g].rows, "price_sqm"))]]

\* The rows of a top-N table carry one field the code does not have: src,
\* the index labels of the rows of df the table row was made from.  It is
\* history only; nothing the model computes reads it.

\* every frame get_top_tx can return, or the exception it raises
get_top_tx(df, from_date, to_date, top) ==
    LET not_land == SelectSeq(df, LAMBDA r : r.prop_type # "Land")
        in_range == Loc(not_land, DateMask(df, from_date, to_date))
        Shown(r) == [index        |-> r.index,
                     src          |-> {r.index},
                     project      |-> r.project,
                     area         |-> r.area,
                     tx_value_usd |-> Format0f(r.tx_value_usd),
                     tx_size_sqm  |-> r.tx_size_sqm,
                     prop_subtype |-> r.prop_subtype]
    IN  { SetIndexOneToTop([i \in 1..Len(HeadRows(sorted, top)) |-> Shown(sorted[i])],
                           top) :
            sorted \in SortValuesDescending(in_range, "tx_value_usd") }

\* every frame get_top_projects can return, or the exception it raises
get_top_projects(df, from_date, to_date, top) ==
    LET groups == GroupBy(Loc(df, DateMask(df, from_date, to_date)), <<"project">>)
        agg == [g \in 1..Len(groups) |->
                  [index        |-> g - 1,
                   src          |-> { r.index : r \in Range(groups[g].rows) },
                   project      |-> groups[g].key[1],
                   units_sold   |-> CountNonNull(groups[g].rows, "tx_number"),
                   tx_value_usd |-> FSum(Column(groups[g].rows, "tx_value_usd"))]]
    IN  { SetIndexOneToTop(
              [i \in 1..Len(HeadRows(sorted, top)) |->
                  [sorted[i] EXCEPT !.tx_value_usd = Format0f(@)]],
              top) :
            sorted \in SortValuesDescending(agg, "units_sold") }

\* groupby(["rooms"]).count().sort_values(by=["rooms"], ascending=False):
\* the keys of the groups are distinct, so the descending sort is the
\* reverse of the groups' ascending order
get_tx_by_room_type(df, from_date, to_date) ==
    LET groups == GroupBy(Loc(df, DateMask(df, from_date, to_date)), <<"rooms">>)
        n == Len(groups)
    IN  [g \in 1..n |->
            [index     |-> n - g,
             rooms     |-> groups[n + 1 - g].key[1],
             tx_number |-> CountNonNull(groups[n + 1 - g].rows, "tx_number")]]

\* record_sale: the five largest transactions that are not "Land", by
\* tx_value, with both values formatted; the index is left as it is
record_sale(df) ==
    LET notland == SelectSeq(df, LAMBDA r : r.prop_type # "Land")
    IN  { Ok([j \in 1..Len(HeadRows(sorted, 5)) |->
                [ index        |-> sorted[j].index,
                  src          |-> {sorted[j].index},
                  tx_date      |-> sorted[j].tx_date,
                  project      |-> sorted[j].project,
                  tx_value     |-> Format0f(sorted[j].tx_value),
                  tx_value_usd |-> Format0f(sorted[j].tx_value_usd),
                  prop_type    |-> sorted[j].prop_type,
                  reg_type     |-> sorted[j].reg_type,
                  rooms        |-> sorted[j].rooms,
                  week_number  |-> sorted[j].week_number ]]) :
            sorted \in SortValuesDescending(notland, "tx_value") }

\* a plausible slip: the formatted column written through to the frame the
\* selection was taken from
ArgumentAfterShared(fn, df) ==
    IF fn \in {"get_top_tx", "record_sale"}
    THEN [i \in 1..Len(df) |->
            [df[i] EXCEPT !.tx_value_usd =
                IF df[i].prop_type # "Land" THEN Format0f(@) ELSE @]]
    ELSE df

\* the frame passed as df once the function fn has returned.  The column
\* assignments of the library (reg_type_temp, payment_method_temp, the
\* formatted tx_value_usd and tx_value, the norm_* columns of the map) are
\* all made on a frame the function has built itself: the result of
\* groupby().count() or agg(), of sort_values()[:top][[columns]], and in
\* record_sale the local name df rebound to df[mask], a copy.  None of them
\* is the frame passed in, and nothing else writes.
ArgumentAfter(fn, df) == df

(***************************************************************************)
(* utils/db.py: the tables of data/dre.db and the queries over them.       *)
(* The table dubai_areas is [exists, rows]: whether the catalog holds the  *)
(* table, and its rows [area, latitude, longitude] (area unique, not null).*)
(***************************************************************************)
\* LOWER() over the area names of the model
Lower(str) == IF str = "Marina" THEN "marina" ELSE str

\* the area names of the model in the order of ORDER BY area ASC
AreaOrder == << "Marina", "downtown", "jvc", "marina", "palm" >>

AreaRank(str) == CHOOSE i \in 1..Len(AreaOrder) : AreaOrder[i] = str

\* the columns the join takes from dubai_areas, and those the augmenter adds
AreaColumns == {"area_norm", "latitude", "longitude"}

DerivedColumns == {"week_number", "tx_date", "tx_value_usd", "price_sqm"}

\* dt.*: the columns of a row that dubailand_tx holds
TxColumns(r) ==
    [c \in (DOMAIN r) \ (AreaColumns \union DerivedColumns \union {"index"}) |-> r[c]]

\* the row of dubai_areas a joined row was matched with
AreaRowOf(r) ==
    [area |-> r.area_norm, latitude |-> r.latitude, longitude |-> r.longitude]

Table(rows) == [exists |-> TRUE, rows |-> rows]

\* DROP TABLE has run and CREATE TABLE has not
NoTable == [exists |-> FALSE, rows |-> {}]

\* no persist_changes_dubai_areas is running
NoPersist == [pc |-> "idle", df |-> <<>>, before |-> NoTable]

\* JOIN dubai_areas da ON LOWER(dt.area) = da.area: the rows of da a
\* transaction matches (none when its area is null)
Matches(t, areas) ==
    { a \in areas : t.area # NullStr /\ Lower(t.area) = a.area }

\* SELECT dt.*, da."area" AS area_norm, da.latitude, da.longitude: the
\* matched transactions, each with the columns of its area
JoinRows(tx, areas) ==
    LET matched == SelectSeq(tx, LAMBDA t : Matches(t, areas) # {})
    IN  [i \in 1..Len(matched) |->
            LET a == CHOOSE x \in Matches(matched[i], areas) : TRUE
            IN  [ area_norm |-> a.area,
                  latitude  |-> a.latitude,
                  longitude |-> a.longitude ] @@ matched[i]]

\* get_tx_data: every frame the query can give (rows of equal timestamp in
\* either order), or the error of a query over a table that is not there
get_tx_data(tx, areas) ==
    IF ~areas.exists
    THEN { Raise("CatalogException") }
    ELSE LET joined == JoinRows(tx, areas.rows)
             n == Len(joined)
         IN  { Ok(QueryDf(s)) :
                 s \in { q \in { [i \in 1..n |-> joined[p[i]]] : p \in Perms(n) } :
                           OrderedByTs(q) } }

\* get_dubai_areas: SELECT * FROM dubai_areas ORDER BY area ASC
get_dubai_areas(areas) ==
    IF ~areas.exists
    THEN Raise("CatalogException")
    ELSE Ok(CHOOSE s \in [1..Cardinality(areas.rows) -> areas.rows] :
              \A i, j \in 1..Cardinality(areas.rows) :
                  i < j => AreaRank(s[i].area) < AreaRank(s[j].area))

\* the database a loaded frame df was read from: its transactions in the
\* order of the frame, the areas they were matched with, no writer at work
LoadedFrom(df) ==
    /\ dubailand_tx = [i \in 1..Len(df) |-> TxColumns(df[i])]
    /\ dubai_areas = Table({ AreaRowOf(df[i]) : i \in 1..Len(df) })
    /\ persist = NoPersist

(***************************************************************************)
(* Inputs.                                                                 *)
(***************************************************************************)
\* the dates a function is called with: the dates of the data and a day
\* before and after them
ArgDates == (0 - 1)..(MaxDay + 1)

\* datetime.timedelta(weeks=1)
DaysPerWeek == 7

\* datetime.date(2023, 1, 1), the min_value of the date inputs: day 0
MinDate == 0

\* datetime.date.today(): the data ends a week before today
Today == MaxDay + DaysPerWeek

\* the dates a date input lets the user pick
InputDates == MinDate..Today

\* every timestamp of the days 0..MaxDay
Timestamps == 0..((MaxDay + 1) * TicksPerDay - 1)

\* the scalars percent_change is applied to: integers and halves
Scalars == { Num(n, d) : n \in (0 - MaxAbs)..MaxAbs, d \in {1, 2} }

(***************************************************************************)
(* Operations.  Each call records its arguments and its outcome.           *)
(***************************************************************************)
\* the first run of the script: the widgets hold their default values (the
\* first option of the selectbox, a week ago, today) and nothing is called yet
Idle ==
    /\ quick_select_timedelta = "custom"
    /\ search_date_from = Today - DaysPerWeek
    /\ search_date_to = Today
    /\ call = NoCall
    /\ ret = Ok(<<>>)

\* the call has returned and the script goes on to its next call
Return ==
    /\ call # NoCall
    /\ call' = NoCall
    /\ ret' = Ok(<<>>)
    /\ UNCHANGED <<tx_data, session, db>>

PercentChange(x1, x2) ==
    /\ call = NoCall
    /\ call' = [fn |-> "percent_change", x1 |-> x1, x2 |-> x2]
    /\ ret' = Ok(percent_change(x1, x2))
    /\ UNCHANGED <<tx_data, session, db>>

GetSliceOfData(from_date, to_date) ==
    /\ call = NoCall
    /\ call' = [fn |-> "get_slice_of_data", from_date |-> from_date,
                to_date |-> to_date]
    /\ ret' = Ok(get_slice_of_data(tx_data, from_date, to_date))
    /\ tx_data' = ArgumentAfter("get_slice_of_data", tx_data)
    /\ UNCHANGED <<session, db>>

GetNumberOfTx(from_date, to_date) ==
    /\ call = NoCall
    /\ call' = [fn |-> "get_number_of_tx", from_date |-> from_date,
                to_date |-> to_date]
    /\ ret' = Ok(get_number_of_tx(tx_data, from_date, to_date))
    /\ tx_data' = ArgumentAfter("get_number_of_tx", tx_data)
    /\ UNCHANGED <<session, db>>

\* the aggregations that return one value or one frame
Aggregate(fn, df, from_date, to_date) ==
    CASE fn = "get_total_tx_value" -> get_total_tx_value(df, from_date, to_date)
      [] fn = "get_median_tx_value_per_sqm" ->
            get_median_tx_value_per_sqm(df, from_date, to_date)
      [] fn = "get_median_rental_value" ->
            get_median_rental_value(df, from_date, to_date)
      [] fn = "get_largest_tx" -> get_largest_tx(df, from_date, to_date)
      [] fn = "get_tx_by_type" -> get_tx_by_type(df, from_date, to_date)
      [] fn = "get_reg_type" -> get_reg_type(df, from_date, to_date)
      [] fn = "get_payment_type" -> get_payment_type(df, from_date, to_date)
      [] fn = "get_median_price_sqm" -> get_median_price_sqm(df, from_date, to_date)
      [] fn = "get_tx_by_room_type" -> get_tx_by_room_type(df, from_date, to_date)

ScalarFns ==
    { "get_total_tx_value", "get_median_tx_value_per_sqm",
      "get_median_rental_value", "get_largest_tx" }

FrameFns ==
    { "get_tx_by_type", "get_reg_type", "get_payment_type",
      "get_median_price_sqm", "get_tx_by_room_type" }

GetAggregate(fn, from_date, to_date) ==
    /\ call = NoCall
    /\ call' = [fn |-> fn, from_date |-> from_date, to_date |-> to_date]
    /\ ret' = Ok(Aggregate(fn, tx_data, from_date, to_date))
    /\ tx_data' = ArgumentAfter(fn, tx_data)
    /\ UNCHANGED <<session, db>>

GetTopTx(from_date, to_date, top) ==
    /\ call = NoCall
    /\ call' = [fn |-> "get_top_tx", from_date |-> from_date,
                to_date |-> to_date, top |-> top]
    /\ ret' \in get_top_tx(tx_data, from_date, to_date, top)
    /\ tx_data' = ArgumentAfter("get_top_tx", tx_data)
    /\ UNCHANGED <<session, db>>

GetTopProjects(from_date, to_date, top) ==
    /\ call = NoCall
    /\ call' = [fn |-> "get_top_projects", from_date |-> from_date,
                to_date |-> to_date, top |-> top]
    /\ ret' \in get_top_projects(tx_data, from_date, to_date, top)
    /\ tx_data' = ArgumentAfter("get_top_projects", tx_data)
    /\ UNCHANGED <<session, db>>

RecordSale ==
    /\ call = NoCall
    /\ call' = [fn |-> "record_sale"]
    /\ ret' \in record_sale(tx_data)
    /\ tx_data' = ArgumentAfter("record_sale", tx_data)
    /\ UNCHANGED <<session, db>>

\* "{:.1f}%".format(x): the text of x rounded to one decimal, n tenths
FormatPct1f(x) == Format0f(FMul(x, FInt(10)))

\* st.metric(label, value, delta) for one pair of aggregates
Metric(current, past) ==
    [current |-> current,
     past    |-> past,
     value   |-> Format0f(current),
     delta   |-> FormatPct1f(percent_change(past, current))]

\* the five metric columns of the main view, for the dates of the sidebar
Metrics(df, from_date, to_date) ==
    LET past_from == from_date - (to_date - from_date)
    IN  [number_of_tx |->
            Metric(FInt(get_number_of_tx(df, from_date, to_date)),
                   FInt(get_number_of_tx(df, past_from, from_date))),
         total_tx_value |->
            Metric(get_total_tx_value(df, from_date, to_date),
                   get_total_tx_value(df, past_from, from_date)),
         median_tx_value_per_sqm |->
            Metric(get_median_tx_value_per_sqm(df, from_date, to_date),
                   get_median_tx_value_per_sqm(df, past_from, from_date)),
         median_rental_value |->
            Metric(get_median_rental_value(df, from_date, to_date),
                   get_median_rental_value(df, past_from, from_date)),
         largest_tx |->
            Metric(get_largest_tx(df, from_date, to_date),
                   get_largest_tx(df, past_from, from_date))]

RenderMetrics ==
    /\ call = NoCall
    /\ call' = [fn |-> "metrics", from_date |-> search_date_from,
                to_date |-> search_date_to]
    /\ ret' = Ok(Metrics(tx_data, search_date_from, search_date_to))
    /\ tx_data' = ArgumentAfter("metrics", tx_data)
    /\ UNCHANGED <<session, db>>

\* on_change of either date input
set_quick_select_timedelta_values == quick_select_timedelta' = "custom"

\* the user picks a date in "Search date from:"
EditSearchDateFrom(date) ==
    /\ call = NoCall
    /\ date # search_date_from
    /\ search_date_from' = date
    /\ set_quick_select_timedelta_values
    /\ UNCHANGED <<tx_data, search_date_to, call, ret, db>>

\* the user picks a date in "Search date to:"
EditSearchDateTo(date) ==
    /\ call = NoCall
    /\ date # search_date_to
    /\ search_date_to' = date
    /\ set_quick_select_timedelta_values
    /\ UNCHANGED <<tx_data, search_date_from, call, ret, db>>

(***************************************************************************)
(* DRE_Dashboard.py: the layers of the map.                                *)
(***************************************************************************)
\* the map layers the sidebar can switch on, named by their colour column
MapLayers == {"norm_count", "norm_tx_value_usd", "norm_price_sqm"}

\* tx_data_slice[[...]][tx_data_slice[["latitude", "longitude"]].notnull().all(1)]
\*     .groupby(["latitude", "longitude"], as_index=False)
GroupByCoordinates(slice) ==
    GroupBy(SelectSeq(slice, LAMBDA r : ~IsNaN(r.latitude) /\ ~IsNaN(r.longitude)),
            <<"latitude", "longitude">>)

\* the metric of one group of a layer: .count() of tx_number,
\* .sum("tx_value_usd") or .median("price_sqm")
LayerMetric(layer, rows) ==
    CASE layer = "norm_count" -> FInt(CountNonNull(rows, "tx_number"))
      [] layer = "norm_tx_value_usd" -> FSum(Column(rows, "tx_value_usd"))
      [] layer = "norm_price_sqm" -> FMedian(Column(rows, "price_sqm"))

\* (metric - metric.min()) / (metric.max() - metric.min())
MinMaxNorm(x, lo, hi) == FDiv(FSub(x, lo), FSub(hi, lo))

\* df_temp of one layer: a row for each pair of coordinates, with the
\* metric of the group and the metric normalised over the groups
MapLayerData(layer, slice) ==
    LET groups == GroupByCoordinates(slice)
        metric == [g \in 1..Len(groups) |-> LayerMetric(layer, groups[g].rows)]
    IN  [g \in 1..Len(groups) |->
            [index     |-> g - 1,
             latitude  |-> groups[g].key[1],
             longitude |-> groups[g].key[2],
             metric    |-> metric[g],
             norm      |-> MinMaxNorm(metric[g], FMin(metric), FMax(metric))]]

\* the script builds the data of one layer from the slice of the sidebar's dates
RenderMapLayer(layer) ==
    /\ call = NoCall
    /\ call' = [fn |-> "map_layer", layer |-> layer,
                from_date |-> search_date_from, to_date |-> search_date_to]
    /\ ret' = Ok(MapLayerData(layer, get_slice_of_data(tx_data, search_date_from,
                                                       search_date_to)))
    /\ tx_data' = ArgumentAfter("map_layer", tx_data)
    /\ UNCHANGED <<session, db>>

(***************************************************************************)
(* SpecFormula: percent_change applied to every pair of scalars.           *)
(***************************************************************************)
InitFormula ==
    /\ tx_data = <<>>
    /\ Idle
    /\ LoadedFrom(tx_data)

NextFormula ==
    \/ \E x1 \in Scalars, x2 \in Scalars : PercentChange(x1, x2)
    \/ Return

SpecFormula == InitFormula /\ [][NextFormula]_vars

(***************************************************************************)
(* SpecFilter: the range filter and the count over every frame whose rows  *)
(* differ in their timestamp.                                              *)
(***************************************************************************)
FilterRows == { [BaseRow EXCEPT !.tx_ts = t] : t \in Timestamps }

InitFilter ==
    /\ tx_data \in { augment_tx_data(df) : df \in QueryResults(FilterRows) }
    /\ Idle
    /\ LoadedFrom(tx_data)

NextFilter ==
    \/ \E from_date \in ArgDates, to_date \in ArgDates :
          \/ GetSliceOfData(from_date, to_date)
          \/ GetNumberOfTx(from_date, to_date)
    \/ Return

SpecFilter == InitFilter /\ [][NextFilter]_vars

(***************************************************************************)
(* SpecAgg: every aggregation over every frame whose rows differ in date,  *)
(* property type, project and value.                                       *)
(***************************************************************************)
\* the dates of the rows and of the ranges of SpecAgg
AggDates == {0, 1}

AggRows ==
    { [BaseRow EXCEPT !.tx_ts = day * TicksPerDay, !.prop_type = prop_type,
                      !.project = project, !.tx_value = tx_value] :
        day \in AggDates,
        prop_type \in {"Land", "Unit"},
        project \in {"Alpha", "Beta"},
        tx_value \in {Num(36725, 100), Num(36725, 50)} }

InitAgg ==
    /\ tx_data \in { augment_tx_data(df) : df \in QueryResults(AggRows) }
    /\ Idle
    /\ LoadedFrom(tx_data)

NextAgg ==
    \/ \E from_date \in AggDates, to_date \in AggDates :
          \/ GetNumberOfTx(from_date, to_date)
          \/ \E fn \in ScalarFns \union FrameFns : GetAggregate(fn, from_date, to_date)
          \/ \E top \in 1..MaxTop : GetTopTx(from_date, to_date, top)
          \/ \E top \in 1..MaxTop : GetTopProjects(from_date, to_date, top)
    \/ Return

SpecAgg == InitAgg /\ [][NextAgg]_vars

(***************************************************************************)
(* Properties of the formula, the range filter and the count.              *)
(***************************************************************************)
\* C1: percent_change(previous, current) returns 0 whenever previous is 0,
\* whatever the sign of current, and (current - previous) / previous * 100
\* for every other previous.  With previous = a/b and current = c/e the
\* quotient is (c*b - a*e) * 100 / (e*a); the result r = n/d is compared
\* with it by cross-multiplication.
C1_PercentChange ==
    call.fn = "percent_change" =>
        /\ ret.tag = "ok"
        /\ IsNum(ret.val)
        /\ call.x1.n = 0 => ret.val = FInt(0)
        /\ call.x1.n # 0 =>
              ret.val.n * call.x2.d * call.x1.n
                = (call.x2.n * call.x1.d - call.x1.n * call.x2.d) * 100 * ret.val.d

\* previous is 0, current is negative, and the change reported is 0
C1_Witness ==
    /\ call.fn = "percent_change"
    /\ call.x1.n = 0
    /\ call.x2.n < 0
    /\ ret = Ok(FInt(0))

\* C2: get_slice_of_data returns exactly the rows whose calendar date d has
\* from_date <= d <= to_date (both ends included, the time of day ignored),
\* in their original order; with from_date > to_date it returns the empty
\* frame, and it never raises.
C2_SliceExact ==
    call.fn = "get_slice_of_data" =>
        /\ ret.tag = "ok"
        /\ \A j \in 1..Len(ret.val) : \E i \in 1..Len(tx_data) : ret.val[j] = tx_data[i]
        /\ \A i \in 1..Len(tx_data) :
              (\E j \in 1..Len(ret.val) : ret.val[j] = tx_data[i])
                <=> /\ call.from_date * TicksPerDay <= tx_data[i].tx_ts
                    /\ tx_data[i].tx_ts < (call.to_date + 1) * TicksPerDay
        /\ \A j \in 1..Len(ret.val), l \in 1..Len(ret.val) :
              j < l => ret.val[j].index < ret.val[l].index
        /\ call.from_date > call.to_date => ret.val = <<>>

\* a proper, non-empty slice that keeps a row stamped later than midnight on
\* to_date and a row stamped on from_date
C2_Witness ==
    /\ call.fn = "get_slice_of_data"
    /\ Len(ret.val) >= 1
    /\ Len(ret.val) < Len(tx_data)
    /\ \E j \in 1..Len(ret.val) :
          /\ DtDate(ret.val[j].tx_ts) = call.to_date
          /\ DtTime(ret.val[j].tx_ts) > 0
    /\ \E j \in 1..Len(ret.val) : DtDate(ret.val[j].tx_ts) = call.from_date

\* C3: get_number_of_tx(records, d1, d2) is the number of rows of
\* get_slice_of_data(records, d1, d2).
C3_CountIsSliceLength ==
    call.fn = "get_number_of_tx" =>
        /\ ret.tag = "ok"
        /\ ret.val = Len(get_slice_of_data(tx_data, call.from_date, call.to_date))

\* a count that is neither 0 nor the whole frame, with a row on to_date
C3_Witness ==
    /\ call.fn = "get_number_of_tx"
    /\ ret.val >= 1
    /\ ret.val < Len(tx_data)
    /\ \E i \in 1..Len(tx_data) : DtDate(tx_data[i].tx_ts) = call.to_date

(***************************************************************************)
(* Properties of the aggregations and the top-N tables.                    *)
(***************************************************************************)
\* the row of tx_data with index label lbl
RowAt(lbl) == CHOOSE r \in Range(tx_data) : r.index = lbl

\* the rows of tx_data dated within the range of the call
InRangeRows ==
    { r \in Range(tx_data) : /\ call.from_date <= DtDate(r.tx_ts)
                             /\ DtDate(r.tx_ts) <= call.to_date }

\* the index labels of the transactions the call's top-N may show
QualifyingTx == { r.index : r \in { x \in InRangeRows : x.prop_type # "Land" } }

\* the projects of the range
ProjectsInRange == { r.project : r \in InRangeRows }

\* the projects of the range with a transaction that is not "Land"
ProjectsNotLand == { r.project : r \in { x \in InRangeRows : x.prop_type # "Land" } }

IsTopCall == call.fn \in {"get_top_tx", "get_top_projects"}

\* C4: over a range that matches no record (the empty frame and every range
\* with from_date > to_date included) every aggregation returns the empty or
\* zero value of its type (count 0, total 0.0, largest and median null, an
\* empty mapping or ranking) and none raises.
C4_EmptyRangeResults ==
    (call.fn # "none" /\ InRangeRows = {}) =>
        /\ ret.tag = "ok"
        /\ CASE call.fn = "get_number_of_tx" -> ret.val = 0
             [] call.fn \in {"get_total_tx_value", "get_median_rental_value"} ->
                    ret.val = FInt(0)
             [] call.fn \in {"get_largest_tx", "get_median_tx_value_per_sqm"} ->
                    IsNaN(ret.val)
             [] OTHER -> ret.val = <<>>

\* C5: when fewer than N entries qualify (q < N transactions of the range
\* that are not "Land" for get_top_tx, q < N projects of the range for
\* get_top_projects), the top-N function returns all q of them and does not
\* fail.
C5_FewerThanNReturnsAll ==
    /\ (call.fn = "get_top_tx" /\ Cardinality(QualifyingTx) < call.top) =>
          /\ ret.tag = "ok"
          /\ Len(ret.val) = Cardinality(QualifyingTx)
          /\ UNION { ret.val[j].src : j \in 1..Len(ret.val) } = QualifyingTx
    /\ (call.fn = "get_top_projects" /\ Cardinality(ProjectsInRange) < call.top) =>
          /\ ret.tag = "ok"
          /\ Len(ret.val) = Cardinality(ProjectsInRange)
          /\ { ret.val[j].project : j \in 1..Len(ret.val) } = ProjectsInRange

\* C6: no "Land" record is in the output of get_top_tx, no "Land"
\* transaction counts towards a project get_top_projects returns, and the
\* output of either has at most N rows and at most as many rows as there
\* are qualifying entries.
C6_TopNExcludesLand ==
    (IsTopCall /\ ret.tag = "ok") =>
        /\ \A j \in 1..Len(ret.val) : \A lbl \in ret.val[j].src :
              RowAt(lbl).prop_type # "Land"
        /\ Len(ret.val) <= call.top
        /\ call.fn = "get_top_tx" => Len(ret.val) <= Cardinality(QualifyingTx)
        /\ call.fn = "get_top_projects" => Len(ret.val) <= Cardinality(ProjectsNotLand)

\* the sort key of row j of a returned top-N table
TopKey(j) ==
    IF call.fn = "get_top_tx"
    THEN RowAt(CHOOSE lbl \in ret.val[j].src : TRUE).tx_value_usd
    ELSE FInt(ret.val[j].units_sold)

\* the place in the input of row j of a returned top-N table: the label of
\* the transaction, or of the first transaction of the project
TopInputPlace(j) ==
    CHOOSE lbl \in ret.val[j].src : \A other \in ret.val[j].src : lbl <= other

\* the sort keys of the qualifying entries the returned table leaves out
TopLeftOutKeys ==
    IF call.fn = "get_top_tx"
    THEN { RowAt(lbl).tx_value_usd :
             lbl \in QualifyingTx \ UNION { ret.val[j].src : j \in 1..Len(ret.val) } }
    ELSE { FInt(Cardinality({ r \in InRangeRows : r.project = pr })) :
             pr \in ProjectsInRange \ { ret.val[j].project : j \in 1..Len(ret.val) } }

\* C7: the result of get_top_tx is in descending order of value_usd and the
\* result of get_top_projects in descending order of transaction count;
\* entries of equal key keep the relative order they have in the input; and
\* no qualifying entry left out has a key greater than one that is included.
C7_TopNStableDescending ==
    (IsTopCall /\ ret.tag = "ok") =>
        /\ \A j, l \in 1..Len(ret.val) :
              j < l => /\ FLeq(TopKey(l), TopKey(j))
                       /\ TopKey(j) = TopKey(l) => TopInputPlace(j) < TopInputPlace(l)
        /\ \A j \in 1..Len(ret.val) : \A key \in TopLeftOutKeys : FLeq(key, TopKey(j))

(***************************************************************************)
(* SpecDash: the metric columns of the dashboard, for every pair of dates  *)
(* the sidebar can hold, over every frame whose rows differ in date and    *)
(* value.                                                                  *)
(***************************************************************************)
DashRows ==
    { [BaseRow EXCEPT !.tx_ts = day * TicksPerDay, !.tx_value = tx_value] :
        day \in 0..MaxDay,
        tx_value \in {Num(36725, 100), Num(36725, 50)} }

InitDash ==
    /\ tx_data \in { augment_tx_data(df) : df \in QueryResults(DashRows) }
    /\ Idle
    /\ LoadedFrom(tx_data)

NextDash ==
    \/ \E date \in InputDates : EditSearchDateFrom(date)
    \/ \E date \in InputDates : EditSearchDateTo(date)
    \/ RenderMetrics
    \/ Return

SpecDash == InitDash /\ [][NextDash]_vars

\* the first day of the previous period of the rendered metrics
PastFrom == call.from_date - (call.to_date - call.from_date)

\* C8: the previous-period aggregate of every metric (count, total value,
\* median price per area, rental, largest) is taken over exactly the records
\* dated in the half-open interval [from_date - (to_date - from_date),
\* from_date): a record dated from_date counts in the current period only.
C8_PreviousPeriodHalfOpen ==
    call.fn = "metrics" =>
        /\ ret.val.number_of_tx.past =
              FInt(Cardinality({ i \in 1..Len(tx_data) :
                                   /\ PastFrom <= DtDate(tx_data[i].tx_ts)
                                   /\ DtDate(tx_data[i].tx_ts) < call.from_date }))
        /\ ret.val.total_tx_value.past =
              get_total_tx_value(tx_data, PastFrom, call.from_date - 1)
        /\ ret.val.median_tx_value_per_sqm.past =
              get_median_tx_value_per_sqm(tx_data, PastFrom, call.from_date - 1)
        /\ ret.val.median_rental_value.past =
              get_median_rental_value(tx_data, PastFrom, call.from_date - 1)
        /\ ret.val.largest_tx.past =
              get_largest_tx(tx_data, PastFrom, call.from_date - 1)

(***************************************************************************)
(* SpecGeo: the layers of the map over every frame whose rows differ in    *)
(* date, coordinates, value and property size.  The dates of the sidebar   *)
(* are the defaults, which leave the earlier of the two dates out of the   *)
(* slice.                                                                  *)
(***************************************************************************)
GeoAreas ==
    { [area |-> "marina", latitude |-> FInt(25), longitude |-> FInt(55)],
      [area |-> "downtown", latitude |-> FInt(25), longitude |-> FInt(56)],
      [area |-> "jvc", latitude |-> FInt(26), longitude |-> FInt(55)],
      [area |-> "palm", latitude |-> NaN, longitude |-> FInt(55)] }

GeoRows ==
    { [BaseRow EXCEPT !.tx_ts = day * TicksPerDay,
                      !.area = at.area, !.area_norm = at.area,
                      !.latitude = at.latitude, !.longitude = at.longitude,
                      !.tx_value = tx_value, !.prop_size_sqm = prop_size_sqm] :
        day \in {MaxDay - 1, MaxDay},
        at \in GeoAreas,
        tx_value \in {Num(36725, 100), Num(36725, 50)},
        prop_size_sqm \in {FInt(1), FInt(0), NaN} }

InitGeo ==
    /\ tx_data \in { augment_tx_data(df) : df \in QueryResults(GeoRows) }
    /\ Idle
    /\ LoadedFrom(tx_data)

NextGeo ==
    \/ \E layer \in MapLayers : RenderMapLayer(layer)
    \/ Return

SpecGeo == InitGeo /\ [][NextGeo]_vars

\* the metrics of the groups of a rendered layer that are not null
LayerMetrics == { ret.val[g].metric : g \in 1..Len(ret.val) } \ {NaN}

\* C9: when every coordinate group has the same metric value (a single
\* group included), the normalisation gives every group the same defined
\* value: no error and no NaN.
C9_DegenerateNormIsConstant ==
    (call.fn = "map_layer" /\ Len(ret.val) >= 1
       /\ \A g \in 1..Len(ret.val) : ret.val[g].metric \in LayerMetrics
       /\ Cardinality(LayerMetrics) = 1) =>
        /\ ret.tag = "ok"
        /\ \A g \in 1..Len(ret.val) :
              /\ IsNum(ret.val[g].norm)
              /\ ret.val[g].norm = ret.val[1].norm

\* C10: when the coordinate groups have at least two distinct metric values,
\* every group gets a value in [0, 1], each group with the least metric gets
\* 0, each group with the greatest metric gets 1, and a group with a larger
\* metric never gets a smaller value.
C10_NormInUnitInterval ==
    (call.fn = "map_layer" /\ Cardinality(LayerMetrics) >= 2) =>
        /\ \A g \in 1..Len(ret.val) :
              /\ IsNum(ret.val[g].norm)
              /\ FLeq(FInt(0), ret.val[g].norm)
              /\ FLeq(ret.val[g].norm, FInt(1))
              /\ (\A m \in LayerMetrics : FLeq(ret.val[g].metric, m))
                    => ret.val[g].norm = FInt(0)
              /\ (\A m \in LayerMetrics : FLeq(m, ret.val[g].metric))
                    => ret.val[g].norm = FInt(1)
        /\ \A g, h \in 1..Len(ret.val) :
              FLess(ret.val[g].metric, ret.val[h].metric)
                => ~FLess(ret.val[h].norm, ret.val[g].norm)

(***************************************************************************)
(* SpecJoin: the dashboard over every table of transactions whose rows     *)
(* differ in date and area name (matched in another case, matched as       *)
(* written, not in the reference table, null), joined with a reference     *)
(* table of two areas.                                                     *)
(***************************************************************************)
JoinAreas ==
    { [area |-> "marina", latitude |-> FInt(25), longitude |-> FInt(55)],
      [area |-> "jvc", latitude |-> FInt(26), longitude |-> FInt(55)] }

JoinTxRows ==
    { [TxColumns(BaseRow) EXCEPT !.tx_ts = day * TicksPerDay, !.area = area] :
        day \in {MaxDay - 1, MaxDay},
        area \in {"Marina", "jvc", "atlantis", NullStr} }

\* the tables, their rows in timestamp order
JoinTables ==
    { q \in UNION { [1..n -> JoinTxRows] : n \in 0..MaxRows } : OrderedByTs(q) }

JoinDates == {MaxDay - 1, MaxDay}

InitJoin ==
    /\ dubailand_tx \in JoinTables
    /\ dubai_areas = Table(JoinAreas)
    /\ persist = NoPersist
    /\ tx_data \in { augment_tx_data(r.val) :
                       r \in get_tx_data(dubailand_tx, dubai_areas) }
    /\ Idle

NextJoin ==
    \/ \E from_date \in JoinDates, to_date \in JoinDates :
          \/ GetNumberOfTx(from_date, to_date)
          \/ \E fn \in ScalarFns \union FrameFns : GetAggregate(fn, from_date, to_date)
    \/ \E layer \in MapLayers : RenderMapLayer(layer)
    \/ Return

SpecJoin == InitJoin /\ [][NextJoin]_vars

\* the rows of dubailand_tx dated within the range of the call
TxInRange ==
    SelectSeq(dubailand_tx, LAMBDA t : /\ call.from_date <= DtDate(t.tx_ts)
                                       /\ DtDate(t.tx_ts) <= call.to_date)

\* the value in dollars of each row of a sequence of transactions
TxValuesUsd(tx) == [i \in 1..Len(tx) |-> FDiv(tx[i].tx_value, AED_PER_USD)]

\* the rows of a sequence of transactions that match a row of dubai_areas
\* with coordinates
TxOnMap(tx) ==
    SelectSeq(tx, LAMBDA t :
        \E a \in Matches(t, dubai_areas.rows) :
            ~IsNaN(a.latitude) /\ ~IsNaN(a.longitude))

\* C11: a transaction whose area matches no row of the reference table is
\* left out of the map layers but counts in the other aggregations: over a
\* range the count, the total value, the largest value and the counts by
\* registration type cover every transaction of the table dated in the
\* range, while the groups of a map layer cover only the matched ones.
C11_UnmatchedAreaOnlyOffMap ==
    /\ call.fn = "get_number_of_tx" => ret.val = Len(TxInRange)
    /\ call.fn = "get_total_tx_value" => ret.val = FSum(TxValuesUsd(TxInRange))
    /\ call.fn = "get_largest_tx" => ret.val = FMax(TxValuesUsd(TxInRange))
    /\ call.fn = "get_reg_type" =>
          FSum([g \in 1..Len(ret.val) |-> FInt(ret.val[g].tx_number)])
            = FInt(Len(TxInRange))
    /\ (call.fn = "map_layer" /\ call.layer = "norm_count") =>
          FSum([g \in 1..Len(ret.val) |-> ret.val[g].metric])
            = FInt(Len(TxOnMap(TxInRange)))

\* an unmatched transaction dated in the range of a count that leaves it out
C11_Witness ==
    /\ call.fn = "get_number_of_tx"
    /\ \E i \in 1..Len(TxInRange) : TxInRange[i].area = "atlantis"
    /\ ret.val < Len(TxInRange)

(***************************************************************************)
(* SpecAugment: the augmenter over every frame the query can give whose    *)
(* rows differ in timestamp (null included), value and property size       *)
(* (zero and null included).  tx_data starts as the frame get_tx_data      *)
(* returns; augment_tx_data assigns its columns in place and returns the   *)
(* frame, and may be applied to its own output.                            *)
(***************************************************************************)
AugmentRows ==
    { [BaseRow EXCEPT !.tx_ts = tx_ts, !.tx_value = tx_value,
                      !.prop_size_sqm = prop_size_sqm] :
        tx_ts \in {NaT, 0, MaxDay * TicksPerDay + 1},
        tx_value \in {Num(36725, 100), FInt(0)},
        prop_size_sqm \in {FInt(2), FInt(0), NaN} }

AugmentTxData ==
    /\ call = NoCall
    /\ call' = [fn |-> "augment_tx_data", df |-> tx_data]
    /\ tx_data' = augment_tx_data(tx_data)
    /\ ret' = Ok(augment_tx_data(tx_data))
    /\ UNCHANGED <<session, db>>

InitAugment ==
    /\ tx_data \in QueryResults(AugmentRows)
    /\ Idle
    /\ LoadedFrom(tx_data)

NextAugment ==
    \/ AugmentTxData
    \/ Return

SpecAugment == InitAugment /\ [][NextAugment]_vars

\* C12: price_sqm of an augmented record is tx_value_usd / prop_size_sqm when
\* the property size is a number other than zero and is null (NaN) when the
\* size is zero or missing; it is never infinite, and augmentation raises
\* nothing.
C12_PriceSqmNullNotInf ==
    call.fn = "augment_tx_data" =>
        /\ ret.tag = "ok"
        /\ \A i \in 1..Len(ret.val) :
              LET size == ret.val[i].prop_size_sqm
              IN  /\ (IsNum(size) /\ size.n # 0) =>
                        ret.val[i].price_sqm = FDiv(ret.val[i].tx_value_usd, size)
                  /\ (~IsNum(size) \/ size.n = 0) => IsNaN(ret.val[i].price_sqm)
                  /\ ~IsInf(ret.val[i].price_sqm)

\* a record of positive value and zero size, augmented to an infinite price
C12_Witness ==
    /\ call.fn = "augment_tx_data"
    /\ \E i \in 1..Len(ret.val) :
          /\ FIsZero(ret.val[i].prop_size_sqm)
          /\ FLess(FInt(0), ret.val[i].tx_value_usd)
          /\ IsInf(ret.val[i].price_sqm)

\* C13: augmentation is idempotent: applied to its own output it gives back
\* that output, the same rows in the same order with the same value in
\* every raw and derived field.
C13_AugmentIdempotent ==
    call.fn = "augment_tx_data" =>
        /\ ret.tag = "ok"
        /\ augment_tx_data(ret.val) = ret.val
        /\ (\A i \in 1..Len(call.df) : "price_sqm" \in DOMAIN call.df[i])
              => ret.val = call.df

\* the second application to a frame of several rows, one of them with a
\* null timestamp and one with a null price
C13_Witness ==
    /\ call.fn = "augment_tx_data"
    /\ Len(call.df) >= 2
    /\ \A i \in 1..Len(call.df) : "price_sqm" \in DOMAIN call.df[i]
    /\ \E i \in 1..Len(call.df) : call.df[i].tx_ts = NaT
    /\ \E i \in 1..Len(call.df) : IsNaN(call.df[i].price_sqm)
    /\ \E i \in 1..Len(call.df) : IsNum(call.df[i].price_sqm)
    /\ ret = Ok(call.df)

\* C16: augmentation fails loudly for a record whose timestamp is missing:
\* it raises or leaves the record out, and never returns a record whose
\* tx_date or week_number is undefined; a missing property size is no error
\* and gives a null price_sqm.
C16_MissingTimestampFailsLoudly ==
    call.fn = "augment_tx_data" =>
        /\ ret.tag = "ok" =>
              \A i \in 1..Len(ret.val) :
                  /\ ret.val[i].week_number # NAWeek
                  /\ ret.val[i].tx_date # NullText
        /\ (\A i \in 1..Len(call.df) : call.df[i].tx_ts # NaT) =>
              /\ ret.tag = "ok"
              /\ \A i \in 1..Len(ret.val) :
                    IsNaN(ret.val[i].prop_size_sqm) => IsNaN(ret.val[i].price_sqm)

\* a record with a null timestamp, returned with no week and no date
C16_Witness ==
    /\ call.fn = "augment_tx_data"
    /\ ret.tag = "ok"
    /\ \E i \in 1..Len(ret.val) :
          /\ call.df[i].tx_ts = NaT
          /\ ret.val[i].week_number = NAWeek
          /\ ret.val[i].tx_date = NullText

(***************************************************************************)
(* SpecFrame: every operation of the library and the map layers, in any    *)
(* order and over any range, on every frame whose rows differ in date,     *)
(* property type and value.                                                *)
(***************************************************************************)
FrameRows ==
    { [BaseRow EXCEPT !.tx_ts = day * TicksPerDay, !.prop_type = prop_type,
                      !.tx_value = tx_value] :
        day \in {MaxDay - 1, MaxDay},
        prop_type \in {"Land", "Unit"},
        tx_value \in {Num(36725, 100), Num(36725, 50)} }

FrameDates == {MaxDay - 1, MaxDay}

InitFrame ==
    /\ tx_data \in { augment_tx_data(df) : df \in QueryResults(FrameRows) }
    /\ Idle
    /\ LoadedFrom(tx_data)

NextFrame ==
    \/ \E from_date \in FrameDates, to_date \in FrameDates :
          \/ GetSliceOfData(from_date, to_date)
          \/ GetNumberOfTx(from_date, to_date)
          \/ \E fn \in ScalarFns \union FrameFns : GetAggregate(fn, from_date, to_date)
          \/ \E top \in 1..MaxTop : GetTopTx(from_date, to_date, top)
          \/ \E top \in 1..MaxTop : GetTopProjects(from_date, to_date, top)
    \/ RecordSale
    \/ \E layer \in MapLayers : RenderMapLayer(layer)
    \/ Return

SpecFrame == InitFrame /\ [][NextFrame]_vars

TotalsRows ==
    { [BaseRow EXCEPT !.tx_ts = day * TicksPerDay, !.tx_value = tx_value] :
        day \in 0..MaxDay,
        tx_value \in {Num(36725, 100), Num(110175, 100), NaN} }

InitTotals ==
    /\ tx_data \in { augment_tx_data(df) : df \in QueryResults(TotalsRows) }
    /\ Idle
    /\ LoadedFrom(tx_data)

NextTotals ==
    \/ \E from_date \in ArgDates, to_date \in ArgDates :
          \/ GetNumberOfTx(from_date, to_date)
          \/ \E fn \in {"get_total_tx_value", "get_largest_tx"} :
                GetAggregate(fn, from_date, to_date)
    \/ Return

SpecTotals == InitTotals /\ [][NextTotals]_vars

\* the sum of the dollar values of the rows of tx_data with the labels S,
\* the rows without a value left out
RECURSIVE SumUsd(_)
SumUsd(S) ==
    IF S = {}
    THEN FInt(0)
    ELSE LET lbl == CHOOSE x \in S : TRUE
             v == RowAt(lbl).tx_value_usd
         IN  IF IsNaN(v) THEN SumUsd(S \ {lbl}) ELSE FAdd(v, SumUsd(S \ {lbl}))

\* the labels of the rows of tx_data dated from a to b
LabelsDated(a, b) ==
    { r.index : r \in { x \in Range(tx_data) : /\ a <= DtDate(x.tx_ts)
                                               /\ DtDate(x.tx_ts) <= b } }

\* C15: get_total_tx_value is the sum of tx_value_usd over exactly the rows
\* dated in the range (0.0 when there is none) and get_largest_tx the
\* greatest tx_value_usd over exactly those rows (null when there is none):
\* 100 on one day and 300 on the next give the total 400 and the largest 300.
C15_TotalAndLargest ==
    LET in_range == LabelsDated(call.from_date, call.to_date)
        values == { RowAt(lbl).tx_value_usd : lbl \in in_range } \ {NaN}
    IN  /\ call.fn = "get_total_tx_value" =>
              /\ ret = Ok(SumUsd(in_range))
              /\ in_range = {} => ret.val = FInt(0)
        /\ call.fn = "get_largest_tx" =>
              /\ ret.tag = "ok"
              /\ values = {} => IsNaN(ret.val)
              /\ values # {} =>
                    /\ ret.val \in values
                    /\ \A v \in values : FLeq(v, ret.val)

\* the total 400 of two rows in range, 100 dollars and 300 dollars on the
\* next day, beside a row out of range
C15_Witness ==
    /\ call.fn = "get_total_tx_value"
    /\ call.to_date = call.from_date + 1
    /\ ret = Ok(FInt(400))
    /\ Len(tx_data) = 3
    /\ \E i, j \in 1..Len(tx_data) :
          /\ DtDate(tx_data[i].tx_ts) = call.from_date
          /\ tx_data[i].tx_value_usd = FInt(100)
          /\ DtDate(tx_data[j].tx_ts) = call.to_date
          /\ tx_data[j].tx_value_usd = FInt(300)
    /\ \E i \in 1..Len(tx_data) : DtDate(tx_data[i].tx_ts) > call.to_date

GroupsRows ==
    { [BaseRow EXCEPT !.tx_ts = day * TicksPerDay, !.prop_type = prop_type,
                      !.reg_type = reg_type, !.tx_type = tx_type] :
        day \in {MaxDay - 1, MaxDay},
        prop_type \in {"Unit", NullStr},
        reg_type \in {"Ready", "Off-Plan", NullStr},
        tx_type \in {"Sales", NullStr} }

GroupFns == {"get_tx_by_type", "get_reg_type", "get_payment_type"}

GroupsDates == (MaxDay - 1)..(MaxDay + 1)

InitGroups ==
    /\ tx_data \in { augment_tx_data(df) : df \in QueryResults(GroupsRows) }
    /\ Idle
    /\ LoadedFrom(tx_data)

NextGroups ==
    \/ \E from_date \in GroupsDates, to_date \in GroupsDates :
          \/ GetNumberOfTx(from_date, to_date)
          \/ \E fn \in GroupFns : GetAggregate(fn, from_date, to_date)
    \/ Return

SpecGroups == InitGroups /\ [][NextGroups]_vars

\* the columns a breakdown groups by
GroupColumns(fn) ==
    CASE fn = "get_tx_by_type" -> <<"prop_type", "tx_date">>
      [] fn = "get_reg_type" -> <<"reg_type">>
      [] fn = "get_payment_type" -> <<"tx_type">>

\* the key of a row of a breakdown's result
ResultKey(fn, g) == RowKey(g, GroupColumns(fn))

\* the sum of the counts of the rows i..Len(out) of a breakdown's result
RECURSIVE SumCounts(_, _)
SumCounts(out, i) ==
    IF i > Len(out) THEN 0 ELSE out[i].tx_number + SumCounts(out, i + 1)

\* C18: a breakdown (property type by day, registration type, transaction
\* type) holds one row per key occurring among the rows in range, with the
\* number of rows in range that carry the key, never zero, and its counts
\* add up to the number of rows in range, the rows whose categorical field
\* is None included.
C18_BreakdownCountsCoverRange ==
    call.fn \in GroupFns =>
        LET out == ret.val
            cols == GroupColumns(call.fn)
        IN  /\ \A g \in 1..Len(out) :
                  /\ out[g].tx_number > 0
                  /\ out[g].tx_number
                       = Cardinality({ r \in InRangeRows :
                                         RowKey(r, cols) = ResultKey(call.fn, out[g]) })
            /\ \A g, h \in 1..Len(out) :
                  ResultKey(call.fn, out[g]) = ResultKey(call.fn, out[h]) => g = h
            /\ SumCounts(out, 1) = Cardinality(InRangeRows)

\* the registration types of two rows in range, one of them None: the
\* breakdown counts one row
C18_Witness ==
    /\ call.fn = "get_reg_type"
    /\ Cardinality(InRangeRows) = 2
    /\ \E r \in InRangeRows : r.reg_type = NullStr
    /\ \E r \in InRangeRows : r.reg_type = "Ready"
    /\ Len(ret.val) = 1
    /\ ret.val[1].tx_number = 1

(***************************************************************************)
(* utils/db.py persist_changes_dubai_areas and the "Update Areas" button.  *)
(* The function opens a read/write connection and runs DROP TABLE, CREATE  *)
(* TABLE and INSERT one after the other, each committed as it returns (no  *)
(* transaction is begun).  persist.pc is the statement it has reached,     *)
(* persist.df the frame it was given and persist.before the table it       *)
(* found.  The readers are the calls that reach the database (a call       *)
(* within the ttl of st.cache_data repeats an earlier result); a reader    *)
(* opens a read-only connection, which fails while the read/write          *)
(* connection is open.                                                     *)
(***************************************************************************)
\* the rows the data editor can hold: the rows of the table, a row with
\* edited coordinates, and a row added without an area
EditedRows ==
    { [area |-> "marina", latitude |-> FInt(25), longitude |-> FInt(55)],
      [area |-> "marina", latitude |-> FInt(26), longitude |-> FInt(56)],
      [area |-> "jvc", latitude |-> FInt(26), longitude |-> FInt(55)],
      [area |-> NullStr, latitude |-> FInt(25), longitude |-> FInt(55)] }

\* the frames the data editor can hand to the button (num_rows="dynamic")
EditedFrames == UNION { [1..n -> EditedRows] : n \in 0..MaxAreas }

\* "area" varchar unique not null: whether INSERT ... SELECT * FROM df fails
ViolatesConstraint(df) ==
    \/ \E i \in 1..Len(df) : df[i].area = NullStr
    \/ \E i, j \in 1..Len(df) : i # j /\ df[i].area = df[j].area

\* the read/write connection of a running persist is open
WriterConnected == persist.pc \in {"connected", "dropped", "created"}

\* the button is clicked: duckdb.connect("data/dre.db", read_only=False)
PersistConnect(df) ==
    /\ call = NoCall
    /\ persist.pc = "idle"
    /\ persist' = [pc |-> "connected", df |-> df, before |-> dubai_areas]
    /\ UNCHANGED <<tx_data, session, call, ret, dubailand_tx, dubai_areas>>

\* DROP TABLE IF EXISTS dubai_areas
PersistDrop ==
    /\ call = NoCall
    /\ persist.pc = "connected"
    /\ dubai_areas' = NoTable
    /\ persist' = [persist EXCEPT !.pc = "dropped"]
    /\ UNCHANGED <<tx_data, session, call, ret, dubailand_tx>>

\* CREATE TABLE dubai_areas (...)
PersistCreate ==
    /\ call = NoCall
    /\ persist.pc = "dropped"
    /\ dubai_areas' = Table({})
    /\ persist' = [persist EXCEPT !.pc = "created"]
    /\ UNCHANGED <<tx_data, session, call, ret, dubailand_tx>>

\* INSERT INTO dubai_areas SELECT * FROM df: every row of df, or none and a
\* ConstraintException; the connection is closed either way
PersistInsert ==
    /\ call = NoCall
    /\ persist.pc = "created"
    /\ IF ViolatesConstraint(persist.df)
       THEN /\ persist' = [persist EXCEPT !.pc = "raised"]
            /\ UNCHANGED dubai_areas
       ELSE /\ persist' = [persist EXCEPT !.pc = "done"]
            /\ dubai_areas' = Table(Range(persist.df))
    /\ UNCHANGED <<tx_data, session, call, ret, dubailand_tx>>

\* the callback is over and the script runs again
PersistReturn ==
    /\ call = NoCall
    /\ persist.pc \in {"raised", "done"}
    /\ persist' = NoPersist
    /\ UNCHANGED <<tx_data, session, call, ret, dubailand_tx, dubai_areas>>

\* get_dubai_areas() reaches the database
GetDubaiAreas ==
    /\ call = NoCall
    /\ call' = [fn |-> "get_dubai_areas"]
    /\ ret' = IF WriterConnected
              THEN Raise("ConnectionException")
              ELSE get_dubai_areas(dubai_areas)
    /\ UNCHANGED <<tx_data, session, db>>

\* tx_data = augment_tx_data(get_tx_data()), get_tx_data reaching the
\* database
GetTxData ==
    /\ call = NoCall
    /\ call' = [fn |-> "get_tx_data"]
    /\ ret' \in IF WriterConnected
                THEN { Raise("ConnectionException") }
                ELSE get_tx_data(dubailand_tx, dubai_areas)
    /\ tx_data' = IF ret'.tag = "ok" THEN augment_tx_data(ret'.val) ELSE tx_data
    /\ UNCHANGED <<session, db>>

\* the table the database starts with
SeedAreas ==
    { [area |-> "marina", latitude |-> FInt(25), longitude |-> FInt(55)],
      [area |-> "jvc", latitude |-> FInt(26), longitude |-> FInt(55)] }

\* the transactions of the database: up to two, in marina or jvc
AreasTx ==
    { q \in UNION { [1..n -> { [c \in (DOMAIN BaseRow) \ AreaColumns |-> BaseRow[c]],
                               [[c \in (DOMAIN BaseRow) \ AreaColumns |-> BaseRow[c]]
                                   EXCEPT !.area = "jvc", !.tx_ts = TicksPerDay] }] :
                      n \in 1..2 } : OrderedByTs(q) }

InitAreas ==
    /\ dubailand_tx \in AreasTx
    /\ dubai_areas = Table(SeedAreas)
    /\ persist = NoPersist
    /\ tx_data \in { augment_tx_data(r.val) :
                       r \in get_tx_data(dubailand_tx, dubai_areas) }
    /\ Idle

NextAreas ==
    \/ \E df \in EditedFrames : PersistConnect(df)
    \/ PersistDrop
    \/ PersistCreate
    \/ PersistInsert
    \/ PersistReturn
    \/ GetDubaiAreas
    \/ GetTxData
    \/ Return

SpecAreas == InitAreas /\ [][NextAreas]_vars

\* C17: persist_changes_dubai_areas is atomic: a reader that gets a result
\* while a persist is under way or has just ended gets the complete table
\* the persist found or the complete table it was given, and after an
\* INSERT that failed the table holds what the persist found.
C17_PersistAtomic ==
    LET after == IF ViolatesConstraint(persist.df)
                 THEN persist.before
                 ELSE Table(Range(persist.df))
    IN  persist.pc # "idle" =>
            /\ (call.fn = "get_dubai_areas" /\ ret.tag = "ok") =>
                  ret \in {get_dubai_areas(persist.before), get_dubai_areas(after)}
            /\ (call.fn = "get_tx_data" /\ ret.tag = "ok") =>
                  ret \in get_tx_data(dubailand_tx, persist.before)
                            \union get_tx_data(dubailand_tx, after)
            /\ persist.pc = "raised" => dubai_areas = persist.before

\* the INSERT of a frame with an added row without an area has failed: the
\* table that held two areas is empty and the frame loaded next has no row
C17_Witness ==
    /\ persist.pc = "raised"
    /\ \E i \in 1..Len(persist.df) : persist.df[i].area = NullStr
    /\ persist.before = Table(SeedAreas)
    /\ dubai_areas = Table({})
    /\ call.fn = "get_tx_data"
    /\ ret = Ok(<<>>)
    /\ tx_data = <<>>

(***************************************************************************)
(* DRE_Dashboard.py: the sidebar.  The selectbox of predefined ranges      *)
(* calls set_selected_date_values when its value changes, the two date     *)
(* inputs call set_quick_select_timedelta_values when theirs do.  Today    *)
(* is one day throughout.                                                  *)
(***************************************************************************)
\* QuickSelectTimeDelta without CUSTOM
PredefinedRanges == {"last day", "last week", "last two weeks", "last month"}

\* the options of the selectbox
QuickSelectTimeDelta == PredefinedRanges \union {"custom"}

\* the datetime.timedelta of a predefined range, in days
TimeDelta(option) ==
    CASE option = "last day" -> 1
      [] option = "last week" -> DaysPerWeek
      [] option = "last two weeks" -> 2 * DaysPerWeek
      [] option = "last month" -> 30

\* a plausible slip: the callback writes search_date_from and leaves
\* search_date_to as it is
set_selected_date_values_from_only(option) ==
    /\ search_date_to' = search_date_to
    /\ search_date_from' = IF option \in PredefinedRanges
                           THEN Today - TimeDelta(option)
                           ELSE search_date_from

\* set_selected_date_values, st.session_state.quick_select_timedelta
\* holding option
set_selected_date_values(option) ==
    /\ search_date_to' = Today
    /\ search_date_from' = IF option \in PredefinedRanges
                           THEN Today - TimeDelta(option)
                           ELSE search_date_from

\* the user picks another option of "Select a predefined range:"
SelectQuickRange(option) ==
    /\ call = NoCall
    /\ option # quick_select_timedelta
    /\ quick_select_timedelta' = option
    /\ set_selected_date_values(option)
    /\ UNCHANGED <<tx_data, call, ret, db>>

InitSidebar ==
    /\ tx_data \in { augment_tx_data(df) : df \in QueryResults({BaseRow}) }
    /\ Idle
    /\ LoadedFrom(tx_data)

NextSidebar ==
    \/ \E option \in QuickSelectTimeDelta : SelectQuickRange(option)
    \/ \E date \in InputDates : EditSearchDateFrom(date)
    \/ \E date \in InputDates : EditSearchDateTo(date)
    \/ RenderMetrics
    \/ Return

SpecSidebar == InitSidebar /\ [][NextSidebar]_vars

\* while a predefined range is selected the dates are today and today less
\* the range
PredefinedRangeHolds ==
    quick_select_timedelta \in PredefinedRanges =>
        /\ search_date_to = Today
        /\ search_date_from = Today - TimeDelta(quick_select_timedelta)
        /\ search_date_from <= search_date_to

\* a manual edit of either date selects CUSTOM, and selecting CUSTOM leaves
\* search_date_from as it is
SidebarStep ==
    /\ (\E date \in InputDates : EditSearchDateFrom(date) \/ EditSearchDateTo(date))
          => quick_select_timedelta' = "custom"
    /\ SelectQuickRange("custom") => search_date_from' = search_date_from

\* C20: after any sequence of selections and manual edits within one day,
\* whenever quick_select_timedelta is a predefined range search_date_to is
\* today and search_date_from is today less 1, 7, 14 or 30 days, so
\* search_date_from <= search_date_to; every manual edit of either date
\* sets quick_select_timedelta to CUSTOM, and selecting CUSTOM leaves
\* search_date_from unchanged.
C20_SidebarDates == []PredefinedRangeHolds /\ [][SidebarStep]_vars

\* "last two weeks" has been selected and the metrics are rendered over
\* the fourteen days up to today
C20_Witness ==
    /\ quick_select_timedelta = "last two weeks"
    /\ search_date_from = Today - 2 * DaysPerWeek
    /\ search_date_to = Today
    /\ call.fn = "metrics"
    /\ call.from_date = search_date_from
    /\ call.to_date = Today

====
